---- MODULE Spec2Model ----
(***************************************************************************)
(* A model of flashgamma: the Distribution class (distribution.py), the    *)
(* distance kernel (helpers.py) and the gamma evaluation (algorithms.py).  *)
(*                                                                         *)
(* Numbers.  The program computes in IEEE floating point.  The model       *)
(* keeps the exact value: a number is a record [k, n, d] that is either a  *)
(* finite rational n/d in lowest terms (k = "fin"), the rational n/d times *)
(* the kernel sentinel 1e9 (k = "big"), or one of the IEEE specials        *)
(* +infinity ("inf"), -infinity ("ninf") and NaN ("nan").  Rounding is not *)
(* modelled; division by zero, infinity and NaN behave as in IEEE 754.     *)
(* A gamma value is a signed square root: [neg, sq] stands for             *)
(* (-1)^neg * sqrt(sq), so that np.sqrt is exact in the model.             *)
(***************************************************************************)
EXTENDS Integers, Sequences, FiniteSets, TLC

VARIABLES
    \* ---- one call of algorithms.gamma() and its caller
    r_dist,          \* the reference Distribution: [data, resolution]
    e_dist,          \* the evaluated Distribution: [data, resolution]
    delta_dose,      \* dose difference criterion, in %
    delta_distance,  \* distance to agreement criterion, in mm
    threshold,       \* threshold, in % of the maximum evaluated value
    local,           \* local (TRUE) or global Van Dyk (FALSE) normalisation
    gamma_map,       \* the data of the Distribution gamma() returned
    pass_rate,       \* the pass rate gamma() returned
    evaluated,       \* the cells whose gamma index the loop body computed
    pc,              \* "idle" | "call" | "done" | "assert_failed"
    prev,            \* what the previous call of the caller returned, or NoResult
    \* ---- one Distribution object and its reader
    dist,            \* [_data, _resolution, _position, _translation, _rotation]
                     \* (_rotation counted in quarter turns)
    position_arg,    \* the position argument of the constructor, or NoPosition
    pos,             \* what the last read of dist.position returned
    op,              \* the last operation on dist
    \* ---- one call of helpers.create_distance_kernel()
    dta,             \* its dta argument
    resolution,      \* its resolution argument
    kernel,          \* the array it returned, or NoKernel
    \* ---- one call of dist.scale_grid()
    reference,       \* its reference_distribution argument, or None
    new_resolution,  \* its new_resolution argument, or None
    new_distribution, \* the Distribution it returned, or None
    \* ---- one call of algorithms.gamma_pass_rate(); its arguments are
    \* r_dist, e_dist, delta_dose, delta_distance, threshold and local, its
    \* position is pc, and its kernel is dta, resolution and kernel
    xi,              \* index of the outer loop, over delta_distance
    yi,              \* index of the inner loop, over delta_dose
    pass_rates,      \* the table of pass rates
    builds,          \* the values of xi at the calls of create_distance_kernel
    evals,           \* the calls of gamma_evaluation_c: [yi, xi, dta, resolution]
    \* ---- the loops of one call of gamma(), one worker per reference row
    worker,          \* row |-> [j: the column it is at, at: its next step]
    writes           \* the cells of gamma_map written since its initialisation

gamma_vars == <<r_dist, e_dist, delta_dose, delta_distance, threshold, local,
                gamma_map, pass_rate, evaluated, pc, prev>>
dist_vars == <<dist, position_arg, pos, op>>
kernel_vars == <<dta, resolution, kernel>>
scale_vars == <<reference, new_resolution, new_distribution>>
\* the state the calls of gamma(), the Distribution's properties and
\* create_distance_kernel() have no access to
rates_vars == <<xi, yi, pass_rates, builds, evals>>
loop_vars == <<worker, writes>>
more_vars == <<scale_vars, rates_vars, loop_vars>>
vars == <<gamma_vars, dist_vars, kernel_vars, more_vars>>

(***************************************************************************)
(* Bounds of the model.                                                    *)
(***************************************************************************)
\* Data values (doses) are the integers 0..MaxDose.
MaxDose == 1

(***************************************************************************)
(* Floating point numbers, kept exact.                                     *)
(***************************************************************************)
IAbs(a) == IF a < 0 THEN -a ELSE a
\* the sentinel of create_distance_kernel(); a number of kind "big" is a
\* positive rational multiple of it
Big == 1000000000

RECURSIVE GCD(_, _)
GCD(a, b) == IF b = 0 THEN a ELSE GCD(b, a % b)

\* the rational n/d (d > 0), in lowest terms
Rat(n, d) == LET g == GCD(IAbs(n), d)
             IN  [k |-> "fin", n |-> n \div g, d |-> d \div g]
Int2F(a) == Rat(a, 1)
Zero == Int2F(0)
One == Int2F(1)
Inf == [k |-> "inf", n |-> 0, d |-> 1]
NInf == [k |-> "ninf", n |-> 0, d |-> 1]
NaN == [k |-> "nan", n |-> 0, d |-> 1]

IsFin(x) == x.k = "fin"
IsNaN(x) == x.k = "nan"
\* -1, 0 or 1; not defined for NaN
Sign(x) == CASE x.k = "inf" -> 1
             [] x.k = "ninf" -> -1
             [] x.k = "big" -> 1
             [] OTHER -> IF x.n > 0 THEN 1 ELSE IF x.n < 0 THEN -1 ELSE 0

NegF(x) == CASE x.k = "fin" -> Rat(-x.n, x.d)
             [] x.k = "inf" -> NInf
             [] x.k = "ninf" -> Inf
             [] OTHER -> x

\* (the sum of a finite number and a multiple of the sentinel is kept as
\* that multiple of the sentinel)
AddF(x, y) ==
    IF IsNaN(x) \/ IsNaN(y) THEN NaN
    ELSE IF IsFin(x) /\ IsFin(y) THEN Rat(x.n * y.d + y.n * x.d, x.d * y.d)
    ELSE IF x.k = "big" /\ y.k \in {"inf", "ninf"} THEN y
    ELSE IF y.k = "big" /\ x.k \in {"inf", "ninf"} THEN x
    ELSE IF x.k = "big" /\ y.k = "big"
         THEN LET q == Rat(x.n * y.d + y.n * x.d, x.d * y.d)
              IN  [k |-> "big", n |-> q.n, d |-> q.d]
    ELSE IF IsFin(x) THEN y
    ELSE IF IsFin(y) THEN x
    ELSE IF x.k = y.k THEN x
    ELSE NaN

SubF(x, y) == AddF(x, NegF(y))

MulF(x, y) ==
    IF IsNaN(x) \/ IsNaN(y) THEN NaN
    ELSE IF IsFin(x) /\ IsFin(y) THEN Rat(x.n * y.n, x.d * y.d)
    ELSE IF Sign(x) * Sign(y) = 0 THEN NaN
    ELSE IF Sign(x) * Sign(y) > 0 THEN Inf
    ELSE NInf

\* x / y; a zero divisor is +0 (every divisor of the program is a square or
\* a positive criterion)
DivF(x, y) ==
    IF IsNaN(x) \/ IsNaN(y) THEN NaN
    ELSE IF x.k = "big" /\ IsFin(y) /\ y.n > 0
         THEN LET q == Rat(x.n * y.d, x.d * y.n)
              IN  [k |-> "big", n |-> q.n, d |-> q.d]
    ELSE IF IsFin(x) /\ IsFin(y)
         THEN IF y.n = 0
              THEN IF x.n = 0 THEN NaN ELSE IF x.n > 0 THEN Inf ELSE NInf
              ELSE IF y.n > 0 THEN Rat(x.n * y.d, x.d * y.n)
              ELSE Rat(-(x.n * y.d), x.d * (-y.n))
    ELSE IF IsFin(x) THEN Zero
    ELSE IF IsFin(y) THEN IF Sign(y) >= 0 THEN x ELSE NegF(x)
    ELSE NaN

SquareF(x) == MulF(x, x)

\* x < y as IEEE compares: FALSE when either is NaN
LessF(x, y) ==
    IF IsNaN(x) \/ IsNaN(y) THEN FALSE
    ELSE IF IsFin(x) /\ IsFin(y) THEN x.n * y.d < y.n * x.d
    ELSE IF x.k = "big" /\ y.k = "big" THEN x.n * y.d < y.n * x.d
    ELSE IF IsFin(x) /\ y.k = "big"
         THEN x.n <= 0 \/ (x.n * y.d) \div (y.n * x.d) < Big
    ELSE IF x.k = "big" /\ IsFin(y)
         THEN y.n > 0 /\ (y.n * x.d - 1) \div (x.n * y.d) >= Big
    ELSE IF x.k = y.k THEN FALSE
    ELSE x.k = "ninf" \/ y.k = "inf"

EqF(x, y) == ~IsNaN(x) /\ ~IsNaN(y) /\ x = y
LeqF(x, y) == LessF(x, y) \/ EqF(x, y)

\* math.ceil of a finite number
Ceil(x) == -((-x.n) \div x.d)
\* int() of a finite number: truncation towards zero
Trunc(x) == IF x.n >= 0 THEN x.n \div x.d ELSE -((-x.n) \div x.d)

(***************************************************************************)
(* Python floats where their rounding decides a result: math.ceil(a * b).  *)
(* A float is [bits, exp]: a sequence of binary digits, most significant   *)
(* first and starting with 1, times 2^exp.  The literal n/d is the double  *)
(* nearest to n/d; a product is rounded to nearest, ties to even.          *)
(***************************************************************************)
Significand == 53
IsPowerOfTwo(n) == \E q \in 0 .. 30 : n = 2^q
\* a number with a short binary expansion: it is a double itself, and so is
\* its product with another such number
Dyadic(x) == IsPowerOfTwo(x.d)

\* what is left of rem / den, 0 <= rem < den, after count binary digits
RECURSIVE Remainder(_, _, _)
Remainder(rem, den, count) ==
    IF count = 0 THEN rem ELSE (2 * Remainder(rem, den, count - 1)) % den
\* the first count binary digits of rem / den
Digits(rem, den, count) ==
    [i \in 1 .. count |->
        IF 2 * Remainder(rem, den, i - 1) >= den THEN 1 ELSE 0]
\* bits + 1
PlusOne(bits) ==
    IF \A i \in 1 .. Len(bits) : bits[i] = 1
    THEN <<1>> \o [i \in 1 .. Len(bits) |-> 0]
    ELSE LET z == CHOOSE i \in 1 .. Len(bits) :
                      bits[i] = 0 /\ \A k \in i + 1 .. Len(bits) : bits[k] = 1
         IN  [i \in 1 .. Len(bits) |->
                 IF i < z THEN bits[i] ELSE IF i = z THEN 1 ELSE 0]
\* the binary digits of a natural number, none for 0
RECURSIVE BitsOf(_)
BitsOf(n) == IF n = 0 THEN <<>> ELSE BitsOf(n \div 2) \o <<n % 2>>
\* the natural number of the first count binary digits of bits
RECURSIVE ValueOf(_, _)
ValueOf(bits, count) ==
    IF count = 0 THEN 0 ELSE 2 * ValueOf(bits, count - 1) + bits[count]
\* bits * k for a small natural k: the carry into the digit that is count
\* places from the last, and the digits of the product
RECURSIVE Carry(_, _, _)
Carry(bits, k, count) ==
    IF count = 0 THEN 0
    ELSE (bits[Len(bits) - count + 1] * k + Carry(bits, k, count - 1)) \div 2
TimesSmall(bits, k) ==
    BitsOf(Carry(bits, k, Len(bits)))
        \o [i \in 1 .. Len(bits) |->
               (bits[i] * k + Carry(bits, k, Len(bits) - i)) % 2]

\* round to nearest, ties to even: bits * 2^exp (plus something below the
\* last digit when sticky) as a double
RoundNearestEven(bits, sticky, exp) ==
    IF Len(bits) <= Significand THEN [bits |-> bits, exp |-> exp]
    ELSE LET t == Len(bits) - Significand
             kept == SubSeq(bits, 1, Significand)
             rest == sticky \/ \E k \in Significand + 2 .. Len(bits) : bits[k] = 1
             up == bits[Significand + 1] = 1 /\ (rest \/ kept[Significand] = 1)
             more == PlusOne(kept)
         IN  IF ~up THEN [bits |-> kept, exp |-> exp + t]
             ELSE IF Len(more) > Significand
                  THEN [bits |-> SubSeq(more, 1, Significand), exp |-> exp + t + 1]
             ELSE [bits |-> more, exp |-> exp + t]

\* the double a literal n/d > 0 denotes
ToDouble(x) ==
    LET p == CHOOSE q \in -12 .. 12 :
                 IF q >= 0 THEN x.d * 2^q <= x.n /\ x.n < x.d * 2^(q + 1)
                 ELSE x.d <= x.n * 2^(-q) /\ x.n * 2^(-q) < 2 * x.d
        num == IF p >= 0 THEN x.n ELSE x.n * 2^(-p)
        den == IF p >= 0 THEN x.d * 2^p ELSE x.d
    IN  RoundNearestEven(<<1>> \o Digits(num - den, den, Significand + 1),
                         Remainder(num - den, den, Significand + 1) # 0,
                         p - (Significand + 1))
\* f * y for a double f and a dyadic y > 0 with a small numerator
FloatTimes(f, y) ==
    RoundNearestEven(TimesSmall(f.bits, y.n), FALSE,
                     f.exp - (CHOOSE q \in 0 .. 30 : y.d = 2^q))
\* math.ceil of a double > 0 below 2^31
CeilOfDouble(f) ==
    LET whole == Len(f.bits) + f.exp
    IN  IF whole <= 0 THEN 1
        ELSE IF f.exp >= 0 THEN ValueOf(f.bits, Len(f.bits)) * 2^f.exp
        ELSE ValueOf(f.bits, whole)
                + (IF \E k \in whole + 1 .. Len(f.bits) : f.bits[k] = 1
                   THEN 1 ELSE 0)
\* math.ceil(x * y) for literals x, y > 0.  Two dyadic literals multiply
\* without rounding; otherwise the one that is not dyadic is rounded to a
\* double and so is the product.  (Two literals that are both not dyadic
\* are multiplied exactly: their rounding is not modelled.)
CeilMul(x, y) ==
    IF Dyadic(x) /\ Dyadic(y) THEN Ceil(MulF(x, y))
    ELSE IF Dyadic(y) THEN CeilOfDouble(FloatTimes(ToDouble(x), y))
    ELSE IF Dyadic(x) THEN CeilOfDouble(FloatTimes(ToDouble(y), x))
    ELSE Ceil(MulF(x, y))

\* np.min of the values in S (not empty): NaN when any of them is NaN
MinF(S) == IF \E x \in S : IsNaN(x) THEN NaN
           ELSE CHOOSE x \in S : \A y \in S : LeqF(x, y)

\* the largest of a non-empty set of integers
IMax(S) == CHOOSE x \in S : \A y \in S : y <= x

(***************************************************************************)
(* numpy arrays.  A 2-D array is a function [0..rows-1 -> [0..cols-1 ->    *)
(* value]], indexed from 0 as in the program.                              *)
(***************************************************************************)
Rows(a) == Cardinality(DOMAIN a)
Cols(a) == Cardinality(DOMAIN a[0])
Cells(a) == (0 .. Rows(a) - 1) \X (0 .. Cols(a) - 1)
\* np.max of an integer array
ArrayMax(a) == IMax({a[c[1]][c[2]] : c \in Cells(a)})

\* The indices a[lo:hi] selects along an axis of length n, as a sequence:
\* a negative bound counts from the end, and both are clipped to 0..n.
PyBound(b, n) == IF b < 0 THEN (IF b + n < 0 THEN 0 ELSE b + n)
                 ELSE IF b > n THEN n ELSE b
PySlice(lo, hi, n) ==
    LET start == PyBound(lo, n)
        stop == PyBound(hi, n)
    IN  [t \in 1 .. (IF stop > start THEN stop - start ELSE 0) |-> start + t - 1]

(***************************************************************************)
(* Gamma values: [neg, sq] is (-1)^neg * sqrt(sq).                         *)
(***************************************************************************)
\* np.sqrt(x), x >= 0, +infinity or NaN
SqrtF(x) == [neg |-> FALSE, sq |-> x]
\* g * -1
Negated(g) == [neg |-> ~g.neg, sq |-> g.sq]
\* np.inf as a gamma value
InfGamma == SqrtF(Inf)
\* np.abs(g) <= 1.0
AbsAboveOne(g) == LessF(One, g.sq)
AbsLeqOne(g) == LeqF(g.sq, One)
\* g == np.inf
IsInfGamma(g) == ~g.neg /\ g.sq = Inf

(***************************************************************************)
(* algorithms.gamma()                                                      *)
(***************************************************************************)
\* line 87: how many grid points wide the dta search is
EvalGrids(e, ddist) == CeilMul(ddist, e.resolution)

\* line 96: kernel[np.sqrt(kernel) > delta_distance] (kernel >= 0, the
\* criterion > 0: the root exceeds it exactly when kernel exceeds its square)
SqrtExceeds(x, ddist) == LessF(SquareF(ddist), x)

\* lines 90-97: the dta kernel gamma() builds, out of range cells at np.inf
GammaKernel(e, ddist) ==
    LET eval_grids == EvalGrids(e, ddist)
        x == [a \in 0 .. 2 * eval_grids |-> Int2F(IAbs(a - eval_grids))]
        summed == [r \in 0 .. 2 * eval_grids |-> [c \in 0 .. 2 * eval_grids |->
                     SquareF(AddF(DivF(x[c], e.resolution),
                                  DivF(x[r], e.resolution)))]]
    IN  [r \in 0 .. 2 * eval_grids |-> [c \in 0 .. 2 * eval_grids |->
            DivF(IF SqrtExceeds(summed[r][c], ddist) THEN Inf ELSE summed[r][c],
                 SquareF(ddist))]]

\* line 102: the width of the border band gamma() skips
RefGrids(r, ddist) == CeilMul(ddist, r.resolution)

\* lines 104-105: the cells the two loops visit
LoopCells(r, ddist) ==
    LET ref_grids == RefGrids(r, ddist)
    IN  {c \in Cells(r.data) :
            /\ ref_grids <= c[1] /\ c[1] < Rows(r.data) - ref_grids
            /\ ref_grids <= c[2] /\ c[2] < Cols(r.data) - ref_grids}

\* line 111: the reference value is under the threshold
UnderOrAtThreshold(D_r, max_e_dose, thresh) ==
    LeqF(Int2F(D_r), DivF(MulF(Int2F(max_e_dose), thresh), Int2F(100)))
UnderThreshold(D_r, max_e_dose, thresh) ==
    LessF(Int2F(D_r), DivF(MulF(Int2F(max_e_dose), thresh), Int2F(100)))

\* line 116
ResScale(r, e) == Trunc(DivF(e.resolution, r.resolution))

\* lines 117-122: the row and the column indices of e_slice
SliceRows(r, e, ddist, i) ==
    LET c_r == i * ResScale(r, e)
    IN  PySlice(c_r - EvalGrids(e, ddist), c_r + EvalGrids(e, ddist) + 1,
                Rows(e.data))
SliceCols(r, e, ddist, j) ==
    LET c_c == j * ResScale(r, e)
    IN  PySlice(c_c - EvalGrids(e, ddist), c_c + EvalGrids(e, ddist) + 1,
                Cols(e.data))

\* lines 123-124: e_slice.shape == kernel.shape
SliceFits(r, e, ddist, i, j) ==
    /\ Len(SliceRows(r, e, ddist, i)) = 2 * EvalGrids(e, ddist) + 1
    /\ Len(SliceCols(r, e, ddist, j)) = 2 * EvalGrids(e, ddist) + 1

\* lines 130-133: the dose difference the criterion allows
InvertedDenom(D_r, max_e_dose, ddose, loc) ==
    IF loc THEN DivF(MulF(Int2F(D_r), Int2F(100)), ddose)
    ELSE DivF(MulF(Int2F(max_e_dose), Int2F(100)), ddose)
Denom(D_r, max_e_dose, ddose, loc) ==
    IF loc THEN DivF(MulF(Int2F(D_r), ddose), Int2F(100))
    ELSE DivF(MulF(Int2F(max_e_dose), ddose), Int2F(100))

\* lines 127-142: the square of the gamma index of reference cell (i, j)
CentreOnly(r, e, ddose, ddist, loc, i, j) ==
    LET D_r == r.data[i][j]
        c == <<i * ResScale(r, e), j * ResScale(r, e)>>
    IN  DivF(SquareF(Int2F(e.data[c[1]][c[2]] - D_r)),
             SquareF(Denom(D_r, ArrayMax(e.data), ddose, loc)))
GammaIndex(r, e, ddose, ddist, loc, i, j) ==
    LET D_r == r.data[i][j]
        rows == SliceRows(r, e, ddist, i)
        cols == SliceCols(r, e, ddist, j)
        krn == GammaKernel(e, ddist)
        denom == Denom(D_r, ArrayMax(e.data), ddose, loc)
        e_slice == [a \in DOMAIN rows |-> [b \in DOMAIN cols |->
                      AddF(DivF(SquareF(Int2F(e.data[rows[a]][cols[b]] - D_r)),
                                SquareF(denom)),
                           krn[a - 1][b - 1])]]
    IN  MinF({e_slice[a][b] : a \in DOMAIN rows, b \in DOMAIN cols})

\* lines 148-149: the point is cold
FlippedCold(D_r, e_value) == e_value < D_r
IsCold(D_r, e_value) == D_r < e_value

\* lines 107-149: what one pass of the loop body stores at (i, j)
CellValue(r, e, ddose, ddist, thresh, loc, i, j) ==
    LET D_r == r.data[i][j]
        g == SqrtF(GammaIndex(r, e, ddose, ddist, loc, i, j))
    IN  IF UnderThreshold(D_r, ArrayMax(e.data), thresh) THEN InfGamma
        ELSE IF IsCold(D_r, e.data[i * ResScale(r, e)][j * ResScale(r, e)])
             THEN Negated(g)
        ELSE g

\* the cells whose gamma index the loop computes
EvaluatedCells(r, e, ddist, thresh) ==
    {c \in LoopCells(r, ddist) :
        ~UnderThreshold(r.data[c[1]][c[2]], ArrayMax(e.data), thresh)}

\* lines 123-124: the assertion fails at some cell the loop evaluates
AssertFails(r, e, ddist, thresh) ==
    \E c \in EvaluatedCells(r, e, ddist, thresh) :
        ~SliceFits(r, e, ddist, c[1], c[2])

\* lines 82-84 and 104-149: the gamma map when the loops end
GammaMapOf(r, e, ddose, ddist, thresh, loc) ==
    [i \in 0 .. Rows(r.data) - 1 |-> [j \in 0 .. Cols(r.data) - 1 |->
        IF <<i, j>> \in LoopCells(r, ddist)
        THEN CellValue(r, e, ddose, ddist, thresh, loc, i, j)
        ELSE InfGamma]]

\* line 151
NumPassing(gmap) == Cardinality({c \in Cells(gmap) : AbsLeqOne(gmap[c[1]][c[2]])})
\* line 152
SizeOnly(gmap) == Cardinality(Cells(gmap))
TotalPoints(gmap) ==
    Cardinality(Cells(gmap))
        - Cardinality({c \in Cells(gmap) : IsInfGamma(gmap[c[1]][c[2]])})
\* line 153
PassRate(gmap) ==
    MulF(DivF(Int2F(NumPassing(gmap)), Int2F(TotalPoints(gmap))), Int2F(100))

(***************************************************************************)
(* The calls of gamma() the model makes.                                   *)
(***************************************************************************)
Doses == 0 .. MaxDose
\* a rows x cols array of value b with value v at cell (ci, cj)
Spot(rows, cols, b, v, ci, cj) ==
    [i \in 0 .. rows - 1 |-> [j \in 0 .. cols - 1 |->
        IF i = ci /\ j = cj THEN v ELSE b]]
\* uniform arrays, and uniform arrays with one cell off the border changed
RefFields(rows, cols) ==
    {Spot(rows, cols, b, v, ci, cj) :
        b \in Doses, v \in Doses, ci \in 1 .. rows - 2, cj \in 1 .. cols - 2}
\* uniform arrays, and uniform arrays with one cell changed
EvalFields(rows, cols) ==
    {Spot(rows, cols, b, v, ci, cj) :
        b \in Doses, v \in Doses, ci \in 0 .. rows - 1, cj \in 0 .. cols - 1}
UniformFields(rows, cols) == {Spot(rows, cols, b, b, 0, 0) : b \in Doses}

DoseCriteria == {Int2F(50), Int2F(200)}
DistanceCriteria == {Rat(1, 2), One, Int2F(2)}
Thresholds == {Zero, Int2F(100)}

\* the shape of the reference and the two resolutions (the evaluated grid is
\* the reference grid refined by their ratio, as scale_grid produces it)
Grids == {[rows |-> 3, cols |-> 4, r_res |-> One, e_res |-> One],
          [rows |-> 3, cols |-> 3, r_res |-> One, e_res |-> Int2F(2)]}
SweepGrids == {[rows |-> 5, cols |-> 5, r_res |-> One, e_res |-> One]}
Refined(g, n) == Trunc(DivF(g.e_res, g.r_res)) * (n - 1) + 1

NoRate == [k |-> "none", n |-> 0, d |-> 1]
NoMap == <<>>
NoKernel == <<>>
NoPosition == <<>>

GammaIdle ==
    /\ r_dist = [data |-> NoMap, resolution |-> One]
    /\ e_dist = [data |-> NoMap, resolution |-> One]
    /\ delta_dose = Zero /\ delta_distance = Zero /\ threshold = Zero
    /\ local = FALSE /\ gamma_map = NoMap /\ pass_rate = NoRate
    /\ evaluated = {} /\ pc = "idle" /\ prev = <<>>
DistIdle ==
    dist = <<>> /\ position_arg = NoPosition /\ pos = NoPosition /\ op = "idle"
KernelIdle == dta = Zero /\ resolution = Zero /\ kernel = NoKernel
None == <<>>
ScaleIdle ==
    reference = None /\ new_resolution = None /\ new_distribution = None
RatesIdle ==
    xi = 0 /\ yi = 0 /\ pass_rates = <<>> /\ builds = <<>> /\ evals = <<>>
LoopIdle == worker = <<>> /\ writes = <<>>
MoreIdle == ScaleIdle /\ RatesIdle /\ LoopIdle

\* the caller has its arguments and is about to call gamma()
GammaInit ==
    /\ \E g \in Grids :
        /\ \E a \in RefFields(g.rows, g.cols) :
               r_dist = [data |-> a, resolution |-> g.r_res]
        /\ \E a \in EvalFields(Refined(g, g.rows), Refined(g, g.cols)) :
               e_dist = [data |-> a, resolution |-> g.e_res]
    /\ delta_dose \in DoseCriteria
    /\ delta_distance \in DistanceCriteria
    /\ threshold \in Thresholds
    /\ local \in BOOLEAN
    /\ gamma_map = NoMap /\ pass_rate = NoRate /\ evaluated = {}
    /\ pc = "call" /\ prev = <<>>

\* gamma(r_dist, e_dist, delta_dose, delta_distance, threshold, local):
\* it returns the gamma map and the pass rate, or the assertion fails
Gamma ==
    /\ pc = "call"
    /\ IF AssertFails(r_dist, e_dist, delta_distance, threshold)
       THEN /\ pc' = "assert_failed"
            /\ UNCHANGED <<gamma_map, pass_rate, evaluated>>
       ELSE /\ gamma_map' = GammaMapOf(r_dist, e_dist, delta_dose,
                                       delta_distance, threshold, local)
            /\ evaluated' = EvaluatedCells(r_dist, e_dist, delta_distance,
                                           threshold)
            /\ pass_rate' = PassRate(gamma_map')
            /\ pc' = "done"
    /\ UNCHANGED <<r_dist, e_dist, delta_dose, delta_distance, threshold,
                   local, prev>>
    /\ UNCHANGED <<dist_vars, kernel_vars, more_vars>>

Init == GammaInit /\ DistIdle /\ KernelIdle /\ MoreIdle
Next == Gamma
Spec == Init /\ [][Next]_vars

(***************************************************************************)
(* The claims about gamma().  What a claim says is written out from the    *)
(* claim, in integer arithmetic on the arguments, and compared with what   *)
(* the call returned.                                                      *)
(***************************************************************************)
\* the least integer that is not below the finite number x > 0
LeastIntegerAtLeast(x) ==
    CHOOSE b \in 0 .. x.n + 1 : b * x.d >= x.n /\ (b - 1) * x.d < x.n
\* the border band of the claims: ceil(delta_distance x r_dist.resolution)
Band == LeastIntegerAtLeast(MulF(delta_distance, r_dist.resolution))
\* the cells of the reference at least Band cells from every border
Interior ==
    {c \in Cells(r_dist.data) :
        /\ c[1] >= Band /\ c[1] + Band <= Rows(r_dist.data) - 1
        /\ c[2] >= Band /\ c[2] + Band <= Cols(r_dist.data) - 1}
MaxEvaluated == ArrayMax(e_dist.data)
\* D_r is below max(evaluated data) x threshold / 100
BelowLevel(c) ==
    r_dist.data[c[1]][c[2]] * 100 * threshold.d < MaxEvaluated * threshold.n
\* the cells gamma() does not skip
NotSkipped == {c \in Interior : ~BelowLevel(c)}
\* resScale, when the two resolutions have an integer ratio
Scale == CHOOSE s \in 1 .. e_dist.resolution.n :
            MulF(Int2F(s), r_dist.resolution) = e_dist.resolution
\* the evaluated value at the cell that corresponds directly to c
Direct(c) == e_dist.data[c[1] * Scale][c[2] * Scale]
\* (E - D_r)^2 / denom^2, with IEEE division when denom is 0
DoseTerm(E, D_r) ==
    LET base == IF local THEN D_r ELSE MaxEvaluated
    IN  IF base = 0
        THEN IF E = D_r THEN NaN ELSE Inf
        ELSE Rat((E - D_r) * (E - D_r) * 10000 * delta_dose.d * delta_dose.d,
                 base * base * delta_dose.n * delta_dose.n)
\* the values (E[w] - D_r)^2 / denom^2 + kernel[w] over the window of c
WindowTerms(c) ==
    LET krn == GammaKernel(e_dist, delta_distance)
        half == (Rows(krn) - 1) \div 2
    IN  {AddF(DoseTerm(e_dist.data[c[1] * Scale + a][c[2] * Scale + b],
                       r_dist.data[c[1]][c[2]]),
              krn[half + a][half + b]) : a \in -half .. half, b \in -half .. half}
\* their minimum (NaN when one of them is NaN, as np.min)
WindowMin(c) ==
    LET terms == WindowTerms(c)
    IN  IF NaN \in terms THEN NaN
        ELSE CHOOSE x \in terms : \A y \in terms : ~LessF(y, x)

\* C1: at every cell gamma() does not skip, the magnitude of the stored
\* gamma value is the square root of the minimum over the window of
\* (E[w] - D_r)^2 / denom^2 + kernel[w], denom being D_r x delta_dose / 100
\* when local and max(evaluated data) x delta_dose / 100 otherwise.
C1_MagnitudeIsRootOfWindowMinimum ==
    pc = "done" =>
        \A c \in NotSkipped : gamma_map[c[1]][c[2]].sq = WindowMin(c)
\* a returned map with a cell whose minimum is met off the centre of the
\* window, on an evaluated grid finer than the reference grid
C1_Witness ==
    /\ pc = "done"
    /\ Scale = 2
    /\ \E c \in NotSkipped :
        /\ IsFin(gamma_map[c[1]][c[2]].sq)
        /\ LessF(Zero, gamma_map[c[1]][c[2]].sq)
        /\ LessF(gamma_map[c[1]][c[2]].sq,
                 DoseTerm(Direct(c), r_dist.data[c[1]][c[2]]))

\* a gamma value is positive / negative (NaN is neither)
Positive(g) == ~g.neg /\ LessF(Zero, g.sq)
Negative(g) == g.neg /\ LessF(Zero, g.sq)

\* the dose difference the criterion allows at c is not zero
DenomNotZero(c) == (IF local THEN r_dist.data[c[1]][c[2]] ELSE MaxEvaluated) # 0

\* C2 as claimed: at every cell gamma() does not skip, an evaluated value at
\* the directly corresponding cell above the reference value gives a
\* positive gamma value and one below it a negative gamma value (stated for
\* the cells whose gamma value is a number: those with a denominator that is
\* not zero).
C2_HigherIsPositive ==
    pc = "done" =>
        \A c \in {x \in NotSkipped : DenomNotZero(x)} :
            /\ Direct(c) > r_dist.data[c[1]][c[2]] =>
                   Positive(gamma_map[c[1]][c[2]])
            /\ Direct(c) < r_dist.data[c[1]][c[2]] =>
                   Negative(gamma_map[c[1]][c[2]])
\* C2 amended: at every cell gamma() does not skip, an evaluated value at the
\* directly corresponding cell above the reference value gives the negated
\* magnitude (a negative value, NaN when the magnitude is NaN) and one below
\* it the magnitude itself (a positive value, NaN when the magnitude is
\* NaN); the sign comes from the directly corresponding cell alone.
C2_HigherIsNegative ==
    pc = "done" =>
        \A c \in NotSkipped :
            LET g == gamma_map[c[1]][c[2]]
            IN  /\ Direct(c) > r_dist.data[c[1]][c[2]] =>
                       g.neg /\ (IsNaN(g.sq) \/ LessF(Zero, g.sq))
                /\ Direct(c) < r_dist.data[c[1]][c[2]] =>
                       ~g.neg /\ (IsNaN(g.sq) \/ LessF(Zero, g.sq))
\* a returned map with a negative cell whose minimum is met at a window cell
\* that is not above the reference value
C2_Witness ==
    /\ pc = "done"
    /\ \E c \in NotSkipped :
        /\ Direct(c) > r_dist.data[c[1]][c[2]]
        /\ Negative(gamma_map[c[1]][c[2]])
        /\ LessF(gamma_map[c[1]][c[2]].sq,
                 DoseTerm(Direct(c), r_dist.data[c[1]][c[2]]))

\* C3: comparing a distribution with itself, with threshold 0 and global
\* normalisation, gives gamma 0 at every interior cell and a pass rate of 100.
C3_SelfComparisonPasses ==
    (pc = "done" /\ e_dist = r_dist /\ threshold = Zero /\ ~local) =>
        /\ \A c \in Interior : gamma_map[c[1]][c[2]].sq = Zero
        /\ pass_rate = Int2F(100)

\* the cells counted as passing, and the cells counted at all
Passing == {c \in Cells(gamma_map) : LeqF(gamma_map[c[1]][c[2]].sq, One)}
Counted == {c \in Cells(gamma_map) : gamma_map[c[1]][c[2]] # InfGamma}
\* p = 100 x a / b (NaN when b is 0)
IsPercentage(p, a, b) ==
    IF b = 0 THEN IsNaN(p) ELSE IsFin(p) /\ p.n * b = 100 * a * p.d

\* C4: with a threshold above 0, every reference cell below
\* max(evaluated data) x threshold / 100 holds the skip sentinel and is
\* neither among the passing cells nor in the denominator of the pass rate,
\* and every interior cell at or above that level is evaluated.
C4_ThresholdExclusion ==
    (pc = "done" /\ LessF(Zero, threshold)) =>
        /\ \A c \in Cells(r_dist.data) :
               BelowLevel(c) => /\ gamma_map[c[1]][c[2]] = InfGamma
                                /\ c \notin evaluated
        /\ IsPercentage(pass_rate,
                        Cardinality({c \in Passing : ~BelowLevel(c)}),
                        Cardinality({c \in Counted : ~BelowLevel(c)}))
        /\ \A c \in Interior : ~BelowLevel(c) => c \in evaluated
\* a call with a threshold above 0 that skipped an interior cell below the
\* level and evaluated one exactly at the level
C4_Witness ==
    /\ pc = "done"
    /\ LessF(Zero, threshold)
    /\ \E c \in Interior : BelowLevel(c) /\ gamma_map[c[1]][c[2]] = InfGamma
    /\ \E c \in evaluated :
           r_dist.data[c[1]][c[2]] * 100 * threshold.d
               = MaxEvaluated * threshold.n

SweepInit ==
    /\ \E g \in SweepGrids :
        \E a \in RefFields(g.rows, g.cols), b \in EvalFields(g.rows, g.cols) :
            /\ \/ a \in UniformFields(g.rows, g.cols)
               \/ b \in UniformFields(g.rows, g.cols)
               \/ a = b
            /\ r_dist = [data |-> a, resolution |-> g.r_res]
            /\ e_dist = [data |-> b, resolution |-> g.e_res]
    /\ delta_dose \in DoseCriteria
    /\ delta_distance \in DistanceCriteria
    /\ threshold \in Thresholds
    /\ local \in BOOLEAN
    /\ gamma_map = NoMap /\ pass_rate = NoRate /\ evaluated = {}
    /\ pc = "call" /\ prev = <<>>

\* the caller keeps what the call returned and calls again
Keep == [delta_dose |-> delta_dose, delta_distance |-> delta_distance,
         pass_rate |-> pass_rate]
RaiseDose ==
    /\ pc = "done" /\ prev = <<>>
    /\ \E d \in DoseCriteria : LessF(delta_dose, d) /\ delta_dose' = d
    /\ prev' = <<Keep>>
    /\ gamma_map' = NoMap /\ pass_rate' = NoRate /\ evaluated' = {}
    /\ pc' = "call"
    /\ UNCHANGED <<r_dist, e_dist, delta_distance, threshold, local>>
    /\ UNCHANGED <<dist_vars, kernel_vars, more_vars>>
RaiseDistance ==
    /\ pc = "done" /\ prev = <<>>
    /\ \E d \in DistanceCriteria : LessF(delta_distance, d) /\ delta_distance' = d
    /\ prev' = <<Keep>>
    /\ gamma_map' = NoMap /\ pass_rate' = NoRate /\ evaluated' = {}
    /\ pc' = "call"
    /\ UNCHANGED <<r_dist, e_dist, delta_dose, threshold, local>>
    /\ UNCHANGED <<dist_vars, kernel_vars, more_vars>>

SweepNext == Gamma \/ RaiseDose \/ RaiseDistance
InitSweep == SweepInit /\ DistIdle /\ KernelIdle /\ MoreIdle
SpecSweep == InitSweep /\ [][SweepNext]_vars

\* the second call has returned
SecondDone == pc = "done" /\ prev # <<>>

\* C6: with the distributions, delta_distance, threshold and local fixed, the
\* pass rate with the larger delta_dose is not lower than the pass rate with
\* the smaller one.
C6_MonotonicInDose ==
    (SecondDone /\ prev[1].delta_distance = delta_distance
                /\ LessF(prev[1].delta_dose, delta_dose)) =>
        ~LessF(pass_rate, prev[1].pass_rate)
\* two calls that differ in delta_dose alone, the second with the higher
\* pass rate
C6_Witness ==
    /\ SecondDone
    /\ prev[1].delta_distance = delta_distance
    /\ LessF(prev[1].delta_dose, delta_dose)
    /\ LessF(Zero, prev[1].pass_rate)
    /\ LessF(prev[1].pass_rate, pass_rate)

\* C7 as claimed: with the distributions, delta_dose, threshold and local
\* fixed, the pass rate with the larger delta_distance is not lower than the
\* pass rate with the smaller one (stated for the global normalisation with
\* a maximum evaluated value above 0, where every gamma value is a number).
C7_MonotonicInDistance ==
    (SecondDone /\ prev[1].delta_dose = delta_dose
                /\ LessF(prev[1].delta_distance, delta_distance)
                /\ ~local /\ MaxEvaluated > 0) =>
        ~LessF(pass_rate, prev[1].pass_rate)
\* the border band and the half width of the search window of a criterion
BandOf(ddist) == LeastIntegerAtLeast(MulF(ddist, r_dist.resolution))
HalfWidthOf(ddist) == LeastIntegerAtLeast(MulF(ddist, e_dist.resolution))
SameGrids ==
    /\ BandOf(prev[1].delta_distance) = BandOf(delta_distance)
    /\ HalfWidthOf(prev[1].delta_distance) = HalfWidthOf(delta_distance)
\* C7 amended: with the distributions, delta_dose, threshold and local
\* fixed, the pass rate with the larger delta_distance is not lower than the
\* pass rate with the smaller one whenever the two criteria give the same
\* border band ceil(delta_distance x r_dist.resolution) and the same search
\* half width ceil(delta_distance x e_dist.resolution).
C7_MonotonicInDistanceSameBand ==
    (SecondDone /\ prev[1].delta_dose = delta_dose
                /\ LessF(prev[1].delta_distance, delta_distance)
                /\ SameGrids) =>
        ~LessF(pass_rate, prev[1].pass_rate)
\* two calls that differ in delta_distance alone, with the same band and
\* half width, the second with the higher pass rate
C7_Witness ==
    /\ SecondDone
    /\ prev[1].delta_dose = delta_dose
    /\ LessF(prev[1].delta_distance, delta_distance)
    /\ SameGrids
    /\ LessF(Zero, prev[1].pass_rate)
    /\ LessF(prev[1].pass_rate, pass_rate)

(***************************************************************************)
(* helpers.create_distance_kernel()                                        *)
(***************************************************************************)
\* line 109: the value of the cells beyond the criterion
Sentinel == [k |-> "big", n |-> 1, d |-> 1]

\* lines 102-111
InfiniteSentinelKernel(dta_, resolution_) ==
    GammaKernel([resolution |-> resolution_], dta_)
CreateDistanceKernel(dta_, resolution_) ==
    LET eval_grids == Ceil(MulF(dta_, resolution_))
        x == [a \in 0 .. 2 * eval_grids |-> Int2F(IAbs(a - eval_grids))]
        summed == [r \in 0 .. 2 * eval_grids |-> [c \in 0 .. 2 * eval_grids |->
                     SquareF(AddF(DivF(x[c], resolution_),
                                  DivF(x[r], resolution_)))]]
    IN  [r \in 0 .. 2 * eval_grids |-> [c \in 0 .. 2 * eval_grids |->
            DivF(IF SqrtExceeds(summed[r][c], dta_) THEN Sentinel
                 ELSE summed[r][c],
                 SquareF(dta_))]]

\* the criteria and resolutions a kernel is built for
MaxArg == 4
KernelArgs == {Rat(n, d) : n \in 1 .. MaxArg, d \in 1 .. MaxArg}

KernelInit == dta \in KernelArgs /\ resolution \in KernelArgs /\ kernel = NoKernel

CreateKernel ==
    /\ kernel = NoKernel
    /\ kernel' = CreateDistanceKernel(dta, resolution)
    /\ UNCHANGED <<dta, resolution, gamma_vars, dist_vars, more_vars>>

InitKernel == GammaIdle /\ DistIdle /\ KernelInit /\ MoreIdle
SpecKernel == InitKernel /\ [][CreateKernel]_vars

\* the kernel of the test: centre 0, 1.0 next to it, 2.5e8 on the diagonals
QuarterBig == [k |-> "big", n |-> 1, d |-> 4]
TestKernel ==
    (0 :> (0 :> QuarterBig @@ 1 :> One @@ 2 :> QuarterBig)) @@
    (1 :> (0 :> One @@ 1 :> Zero @@ 2 :> One)) @@
    (2 :> (0 :> QuarterBig @@ 1 :> One @@ 2 :> QuarterBig))

\* C8: create_distance_kernel(dta, resolution) returns a square array of
\* side 2k+1, k = ceil(dta x resolution), that holds at offset (dx, dy) from
\* its centre ((|dx| + |dy|) / resolution)^2 / dta^2 when
\* (|dx| + |dy|) / resolution <= dta and 1e9 / dta^2 otherwise; its centre is
\* 0, and dta = 2, resolution = 0.5 give the 3x3 array of the test.
C8_KernelValues ==
    kernel # NoKernel =>
        LET half == LeastIntegerAtLeast(MulF(dta, resolution))
        IN  /\ DOMAIN kernel = 0 .. 2 * half
            /\ \A r \in 0 .. 2 * half :
                /\ DOMAIN kernel[r] = 0 .. 2 * half
                /\ \A c \in 0 .. 2 * half :
                    LET m == IAbs(r - half) + IAbs(c - half)
                    IN  kernel[r][c] =
                          IF m * resolution.d * dta.d <= dta.n * resolution.n
                          THEN Rat(m * m * resolution.d * resolution.d
                                       * dta.d * dta.d,
                                   resolution.n * resolution.n * dta.n * dta.n)
                          ELSE [k |-> "big", n |-> Rat(dta.d * dta.d, dta.n * dta.n).n,
                                             d |-> Rat(dta.d * dta.d, dta.n * dta.n).d]
            /\ kernel[half][half] = Zero
            /\ (dta = Int2F(2) /\ resolution = Rat(1, 2)) =>
                   kernel = TestKernel /\ Big \div QuarterBig.d = 250000000
\* the kernel of the test has been built
C8_Witness ==
    /\ dta = Int2F(2) /\ resolution = Rat(1, 2)
    /\ kernel # NoKernel
    /\ kernel[0][0].k = "big" /\ kernel[0][1] = One /\ kernel[1][1] = Zero

(***************************************************************************)
(* distribution.Distribution.  A position array is                         *)
(* [0..1 -> [0..rows-1 -> [0..cols-1 -> number]]]: x at 0, y at 1.  An     *)
(* angle is a whole number of quarter turns q (q x pi/2 radians), so that  *)
(* its sine and cosine are exact.                                          *)
(***************************************************************************)
\* np.cos and np.sin of q quarter turns
Cos(q) == CASE q % 4 = 0 -> One [] q % 4 = 2 -> Int2F(-1) [] OTHER -> Zero
Sin(q) == CASE q % 4 = 1 -> One [] q % 4 = 3 -> Int2F(-1) [] OTHER -> Zero

\* lines 34-45: the position of each point of a data array, centred on the
\* origin
OffCentrePosition(data, resolution_) ==
    [axis \in 0 .. 1 |-> [i \in 0 .. Rows(data) - 1 |-> [j \in 0 .. Cols(data) - 1 |->
        IF axis = 0
        THEN SubF(DivF(Int2F(j), resolution_),
                  DivF(DivF(Int2F(Cols(data)), resolution_), Int2F(2)))
        ELSE SubF(DivF(Int2F(i), resolution_),
                  DivF(DivF(Int2F(Rows(data)), resolution_), Int2F(2)))]]]
DefaultPosition(data, resolution_) ==
    LET xx == [i \in 0 .. Rows(data) - 1 |-> [j \in 0 .. Cols(data) - 1 |-> Int2F(j)]]
        yy == [i \in 0 .. Rows(data) - 1 |-> [j \in 0 .. Cols(data) - 1 |-> Int2F(i)]]
        scaled == [axis \in 0 .. 1 |-> [i \in 0 .. Rows(data) - 1 |->
                     [j \in 0 .. Cols(data) - 1 |->
                        DivF((IF axis = 0 THEN xx ELSE yy)[i][j], resolution_)]]]
        x_offset == DivF(SubF(scaled[0][0][Cols(data) - 1], scaled[0][0][0]),
                         Int2F(2))
        y_offset == DivF(SubF(scaled[1][Rows(data) - 1][0], scaled[1][0][0]),
                         Int2F(2))
    IN  [axis \in 0 .. 1 |-> [i \in 0 .. Rows(data) - 1 |->
            [j \in 0 .. Cols(data) - 1 |->
                SubF(scaled[axis][i][j],
                     IF axis = 0 THEN x_offset ELSE y_offset)]]]

\* lines 24-47: Distribution(data, resolution, position)
Distribution(data, resolution_, position) ==
    [_data |-> data,
     _resolution |-> resolution_,
     _translation |-> <<0, 0>>,
     _rotation |-> 0,
     _position |-> IF position = NoPosition
                   THEN DefaultPosition(data, resolution_)
                   ELSE position]

\* lines 96-109: the position property
TranslatedThenRotated(d) ==
    LET moved == [axis \in 0 .. 1 |-> [i \in DOMAIN d._position[0] |->
                    [j \in DOMAIN d._position[0][0] |->
                       AddF(d._position[axis][i][j],
                            Int2F(d._translation[axis + 1]))]]]
    IN  [axis \in 0 .. 1 |-> [i \in DOMAIN moved[0] |-> [j \in DOMAIN moved[0][0] |->
            IF axis = 0
            THEN SubF(MulF(Cos(d._rotation), moved[0][i][j]),
                      MulF(Sin(d._rotation), moved[1][i][j]))
            ELSE AddF(MulF(Sin(d._rotation), moved[0][i][j]),
                      MulF(Cos(d._rotation), moved[1][i][j]))]]]
Position(d) ==
    LET rot_matrix == <<<<Cos(d._rotation), NegF(Sin(d._rotation))>>,
                        <<Sin(d._rotation), Cos(d._rotation)>>>>
        rotated ==
            IF d._rotation # 0
            THEN [axis \in 0 .. 1 |-> [i \in DOMAIN d._position[0] |->
                    [j \in DOMAIN d._position[0][0] |->
                       AddF(MulF(rot_matrix[axis + 1][1], d._position[0][i][j]),
                            MulF(rot_matrix[axis + 1][2], d._position[1][i][j]))]]]
            ELSE d._position
    IN  [axis \in 0 .. 1 |-> [i \in DOMAIN rotated[0] |->
            [j \in DOMAIN rotated[0][0] |->
                AddF(rotated[axis][i][j], Int2F(d._translation[axis + 1]))]]]

\* the Distributions the model constructs
MaxShift == 2
Translations == (0 .. MaxShift) \X (0 .. MaxShift)
QuarterTurns == 0 .. 3
Zeros(rows, cols) == Spot(rows, cols, 0, 0, 0, 0)
\* np.stack(np.meshgrid(x, y)) for x = x0, x0+1, ... and y = y0, y0+1, ...
Mesh(rows, cols, x0, y0) ==
    [axis \in 0 .. 1 |-> [i \in 0 .. rows - 1 |-> [j \in 0 .. cols - 1 |->
        IF axis = 0 THEN Int2F(x0 + j) ELSE Int2F(y0 + i)]]]
Constructions ==
    {[data |-> Zeros(11, 11), resolution |-> One, position |-> NoPosition],
     [data |-> Zeros(11, 11), resolution |-> One,
      position |-> Mesh(11, 11, -4, -3)],
     [data |-> Zeros(2, 3), resolution |-> Int2F(2), position |-> NoPosition],
     [data |-> Zeros(4, 2), resolution |-> Rat(1, 2), position |-> NoPosition],
     [data |-> Zeros(2, 3), resolution |-> One, position |-> Mesh(2, 3, 1, 0)]}

DistInit ==
    \E c \in Constructions :
        /\ dist = Distribution(c.data, c.resolution, c.position)
        /\ position_arg = c.position
        /\ pos = NoPosition
        /\ op = "init"

\* lines 70-76: dist.translation = translation
SetTranslation ==
    /\ \E t \in Translations : dist' = [dist EXCEPT !._translation = t]
    /\ op' = "translation"
    /\ UNCHANGED <<position_arg, pos, gamma_vars, kernel_vars, more_vars>>
\* lines 85-87: dist.rotation = rad
SetRotation ==
    /\ \E q \in QuarterTurns : dist' = [dist EXCEPT !._rotation = q]
    /\ op' = "rotation"
    /\ UNCHANGED <<position_arg, pos, gamma_vars, kernel_vars, more_vars>>
\* lines 98-108: the object after a read of position; the rotation loop
\* writes into pos, a deep copy of self._position, and the translation
\* rebinds pos, so no field of the object is written
RotatedInPlace(d) ==
    [d EXCEPT !._position =
        Position([d EXCEPT !._translation = <<0, 0>>])]
SelfAfterPosition(d) == d
\* lines 89-109: a read of dist.position
ReadPosition ==
    /\ pos' = Position(dist)
    /\ dist' = SelfAfterPosition(dist)
    /\ op' = "position"
    /\ UNCHANGED <<position_arg, gamma_vars, kernel_vars, more_vars>>

DistNext == SetTranslation \/ SetRotation \/ ReadPosition
InitDist == GammaIdle /\ DistInit /\ KernelIdle /\ MoreIdle
SpecDist == InitDist /\ [][DistNext]_vars
\* a point turned by q quarter turns about the origin, then moved by t
Turned(x, y, q) ==
    CASE q = 0 -> <<x, y>>
      [] q = 1 -> <<NegF(y), x>>
      [] q = 2 -> <<NegF(x), NegF(y)>>
      [] q = 3 -> <<y, NegF(x)>>
TurnedAndMoved(d, i, j) ==
    LET p == Turned(d._position[0][i][j], d._position[1][i][j], d._rotation)
    IN  <<AddF(p[1], Int2F(d._translation[1])),
          AddF(p[2], Int2F(d._translation[2]))>>
IsDefault11 ==
    position_arg = NoPosition /\ Rows(dist._data) = 11 /\ dist._resolution = One

\* C9: a read of position returns, at every point, the stored position
\* turned about the origin by the rotation in force and then moved by the
\* translation in force; it is computed from the values in force at the
\* read.  A quarter turn sends (x, y) to (-y, x); the translation (1, 2) of
\* the default 11x11 grid gives x from -4 to 6 and y from -3 to 7.
C9_PositionRotatesThenTranslates ==
    op = "position" =>
        /\ \A i \in DOMAIN dist._position[0] : \A j \in DOMAIN dist._position[0][0] :
              <<pos[0][i][j], pos[1][i][j]>> = TurnedAndMoved(dist, i, j)
        /\ (dist._rotation = 1 /\ dist._translation = <<0, 0>>) =>
              \A i \in DOMAIN pos[0] : \A j \in DOMAIN pos[0][0] :
                  /\ pos[0][i][j] = NegF(dist._position[1][i][j])
                  /\ pos[1][i][j] = dist._position[0][i][j]
        /\ (IsDefault11 /\ dist._rotation = 0 /\ dist._translation = <<1, 2>>) =>
              \A i \in 0 .. 10 : \A j \in 0 .. 10 :
                  pos[0][i][j] = Int2F(j - 4) /\ pos[1][i][j] = Int2F(i - 3)
\* a read with a quarter turn and the translation (1, 2) in force, where the
\* order of the two matters
C9_Witness ==
    /\ op = "position"
    /\ IsDefault11
    /\ dist._rotation = 1 /\ dist._translation = <<1, 2>>
    /\ pos[0][0][0] = Int2F(6) /\ pos[1][0][0] = Int2F(-3)

\* C10: without a position the constructor puts point (i, j) at
\* x = j/resolution - (cols-1)/(2 resolution) and
\* y = i/resolution - (rows-1)/(2 resolution): neighbours are 1/resolution
\* apart, the extremes of each axis are opposite, and an 11x11 array at
\* resolution 1 spans -5..5 on both axes.  With a position, the Distribution
\* reports that position while its translation and rotation are zero.
C10_ConstructedPosition ==
    LET rows == Rows(dist._data)
        cols == Cols(dist._data)
        res == dist._resolution
        P == dist._position
        Unmoved == dist._translation = <<0, 0>> /\ dist._rotation = 0
    IN  /\ position_arg = NoPosition =>
            /\ \A i \in 0 .. rows - 1 : \A j \in 0 .. cols - 1 :
                /\ P[0][i][j] = Rat((2 * j - (cols - 1)) * res.d, 2 * res.n)
                /\ P[1][i][j] = Rat((2 * i - (rows - 1)) * res.d, 2 * res.n)
                /\ j > 0 => SubF(P[0][i][j], P[0][i][j - 1]) = Rat(res.d, res.n)
                /\ i > 0 => SubF(P[1][i][j], P[1][i - 1][j]) = Rat(res.d, res.n)
            /\ AddF(P[0][0][0], P[0][0][cols - 1]) = Zero
            /\ AddF(P[1][0][0], P[1][rows - 1][0]) = Zero
            /\ (rows = 11 /\ cols = 11 /\ res = One) =>
                  /\ P[0][0][0] = Int2F(-5) /\ P[0][0][10] = Int2F(5)
                  /\ P[1][0][0] = Int2F(-5) /\ P[1][10][0] = Int2F(5)
            /\ (op = "position" /\ Unmoved) => pos = P
        /\ position_arg # NoPosition =>
            /\ P = position_arg
            /\ (op = "position" /\ Unmoved) => pos = position_arg
\* a default grid whose spacing is not 1 and whose centre lies between
\* points has been built and read
C10_Witness ==
    /\ position_arg = NoPosition
    /\ dist._resolution = Int2F(2)
    /\ op = "position"
    /\ dist._translation = <<0, 0>> /\ dist._rotation = 0
    /\ pos[0][0][0] = Rat(-1, 2) /\ pos[1][0][0] = Rat(-1, 4)

(***************************************************************************)
(* Distribution.scale_grid().  np.linspace is given its count as a float   *)
(* and takes its whole part, as the numpy of test_scale_grid does.         *)
(***************************************************************************)
\* np.linspace(start, stop, num)
LinspaceOpen(start, stop, num) ==
    LET n == Trunc(num)
    IN  [k \in 0 .. n - 1 |->
            AddF(start, DivF(MulF(Int2F(k), SubF(stop, start)), Int2F(n)))]
Linspace(start, stop, num) ==
    LET n == Trunc(num)
    IN  [k \in 0 .. n - 1 |->
            IF n = 1 THEN start
            ELSE AddF(start, DivF(MulF(Int2F(k), SubF(stop, start)),
                                  Int2F(n - 1)))]
\* position[0, 0, :] and position[1, :, 0]
XAxis(position) == position[0][0]
YAxis(position) == [i \in DOMAIN position[1] |-> position[1][i][0]]
AxisLen(axis) == Cardinality(DOMAIN axis)

\* lines 162-168: RectBivariateSpline(x, y, z, kx=1, ky=1) refuses axes that
\* are not strictly increasing or have fewer than two points
StrictlyIncreasing(axis) ==
    \A k \in DOMAIN axis : (k + 1) \in DOMAIN axis => LessF(axis[k], axis[k + 1])
SplineFails(d) ==
    LET x == XAxis(Position(d))
        y == YAxis(Position(d))
    IN  \/ AxisLen(x) < 2 \/ AxisLen(y) < 2
        \/ ~StrictlyIncreasing(x) \/ ~StrictlyIncreasing(y)
        \/ AxisLen(x) # Cols(d._data) \/ AxisLen(y) # Rows(d._data)

\* the interval of the axis that holds v (v clamped to the axis), and the
\* weight of its right end: a spline of degree 1 through the data
Clamped(axis, v) ==
    IF LessF(v, axis[0]) THEN axis[0]
    ELSE IF LessF(axis[AxisLen(axis) - 1], v) THEN axis[AxisLen(axis) - 1]
    ELSE v
Interval(axis, v) ==
    IMax({k \in 0 .. AxisLen(axis) - 2 : k = 0 \/ LeqF(axis[k], Clamped(axis, v))})
Weight(axis, v) ==
    LET k == Interval(axis, v)
    IN  DivF(SubF(Clamped(axis, v), axis[k]), SubF(axis[k + 1], axis[k]))
\* line 171: interp_spline(x_new, y_new), transposed
Interpolated(d, x_new, y_new) ==
    LET x == XAxis(Position(d))
        y == YAxis(Position(d))
    IN  [q \in DOMAIN y_new |-> [p \in DOMAIN x_new |->
            LET kx == Interval(x, x_new[p])
                ky == Interval(y, y_new[q])
                wx == Weight(x, x_new[p])
                wy == Weight(y, y_new[q])
                z(a, b) == Int2F(d._data[b][a])
                low == AddF(MulF(SubF(One, wx), z(kx, ky)),
                            MulF(wx, z(kx + 1, ky)))
                high == AddF(MulF(SubF(One, wx), z(kx, ky + 1)),
                             MulF(wx, z(kx + 1, ky + 1)))
            IN  AddF(MulF(SubF(One, wy), low), MulF(wy, high))]]

\* lines 143-159: the two new axes
AxesOfSelf(self, reference_distribution, new_res) ==
    LET scale == IF new_res = None THEN One
                 ELSE DivF(new_res, self._resolution)
        x == XAxis(Position(self))
        y == YAxis(Position(self))
    IN  [x_new |-> Linspace(x[0], x[AxisLen(x) - 1],
                            AddF(MulF(scale, Int2F(AxisLen(x) - 1)), One)),
         y_new |-> Linspace(y[0], y[AxisLen(y) - 1],
                            AddF(MulF(scale, Int2F(AxisLen(y) - 1)), One))]
NewAxes(self, reference_distribution, new_res) ==
    LET ref == IF reference_distribution = None THEN self
               ELSE reference_distribution
        scale == IF new_res = None THEN One
                 ELSE DivF(new_res, ref._resolution)
        x == XAxis(Position(ref))
        y == YAxis(Position(ref))
        xscale == AddF(MulF(scale, Int2F(AxisLen(x) - 1)), One)
        yscale == AddF(MulF(scale, Int2F(AxisLen(y) - 1)), One)
    IN  [x_new |-> Linspace(x[0], x[AxisLen(x) - 1], xscale),
         y_new |-> Linspace(y[0], y[AxisLen(y) - 1], yscale)]
\* lines 143-178
ScaleGridOf(self, reference_distribution, new_res) ==
    LET ref == IF reference_distribution = None THEN self
               ELSE reference_distribution
        axes == NewAxes(self, reference_distribution, new_res)
    IN  Distribution(Interpolated(self, axes.x_new, axes.y_new),
                     IF new_res = None THEN ref._resolution ELSE new_res,
                     [axis \in 0 .. 1 |-> [i \in DOMAIN axes.y_new |->
                        [j \in DOMAIN axes.x_new |->
                            IF axis = 0 THEN axes.x_new[j] ELSE axes.y_new[i]]]])

\* the calls of scale_grid the model makes
MaxRes == 3
NewResolutions == {None} \cup {Rat(n, d) : n \in 1 .. MaxRes, d \in 1 .. MaxRes}
\* the array of the test: zero but for a 5x5 block
Block == [i \in 0 .. 10 |-> [j \in 0 .. 10 |->
            IF i \in 3 .. 7 /\ j \in 3 .. 7 THEN 2 ELSE 0]]
ScaleSources ==
    {Distribution(Block, One, None),
     Distribution(Spot(2, 3, 0, 1, 0, 1), One, None),
     Distribution(Spot(3, 3, 1, 0, 1, 1), Int2F(2), None),
     [Distribution(Spot(3, 2, 0, 1, 2, 0), One, Mesh(3, 2, 1, 0))
         EXCEPT !._translation = <<1, 2>>],
     [Distribution(Spot(3, 3, 1, 0, 1, 1), One, None) EXCEPT !._rotation = 1]}
ScaleReferences ==
    {None,
     Distribution(Zeros(3, 3), One, None),
     Distribution(Zeros(2, 4), Rat(1, 2), None),
     Distribution(Zeros(11, 11), One, None),
     [Distribution(Zeros(3, 3), One, None) EXCEPT !._rotation = 1]}

ScaleInit ==
    /\ dist \in ScaleSources
    /\ position_arg = NoPosition /\ pos = NoPosition /\ op = "init"
    /\ reference \in ScaleReferences
    /\ new_resolution \in NewResolutions
    /\ new_distribution = None

\* dist.scale_grid(reference, new_resolution)
ScaleGrid ==
    /\ op = "init"
    /\ IF SplineFails(dist)
       THEN op' = "spline_error" /\ UNCHANGED new_distribution
       ELSE /\ new_distribution' = ScaleGridOf(dist, reference, new_resolution)
            /\ op' = "scale_grid"
    /\ UNCHANGED <<dist, position_arg, pos, reference, new_resolution>>
    /\ UNCHANGED <<gamma_vars, kernel_vars, rates_vars, loop_vars>>

InitScale == GammaIdle /\ ScaleInit /\ KernelIdle /\ RatesIdle /\ LoopIdle
SpecScale == InitScale /\ [][ScaleGrid]_vars
\* the reference grid of the call, and the scale of the claims
RefOfCall == IF reference = None THEN dist ELSE reference
ScaleOfCall ==
    IF new_resolution = None THEN One
    ELSE Rat(new_resolution.n * RefOfCall._resolution.d,
             new_resolution.d * RefOfCall._resolution.n)
\* the coordinates of the reference grid along axis 0 (x) or 1 (y), as a
\* read of its position reports them
RefCount(axis) ==
    IF axis = 0 THEN Cols(RefOfCall._data) ELSE Rows(RefOfCall._data)
RefCoordinate(axis, k) ==
    IF axis = 0 THEN TurnedAndMoved(RefOfCall, 0, k)[1]
    ELSE TurnedAndMoved(RefOfCall, k, 0)[2]
\* scale x (referenceCount - 1) + 1, and its whole part
ClaimedCount(axis) ==
    Rat(ScaleOfCall.n * (RefCount(axis) - 1) + ScaleOfCall.d, ScaleOfCall.d)
WholePart(x) == CHOOSE b \in 0 .. x.n : b * x.d <= x.n /\ x.n < (b + 1) * x.d
\* the points of the returned grid along an axis
NewCount(axis) ==
    IF axis = 0 THEN Cardinality(DOMAIN new_distribution._position[0][0])
    ELSE Cardinality(DOMAIN new_distribution._position[0])
\* the returned position is the meshgrid of two axes, each of count points
\* evenly spaced from the reference's first to its last coordinate
IsMeshOver(countX, countY) ==
    LET P == new_distribution._position
        At(axis, k, count) ==
            IF count = 1 THEN RefCoordinate(axis, 0)
            ELSE DivF(AddF(MulF(Int2F(count - 1 - k), RefCoordinate(axis, 0)),
                           MulF(Int2F(k),
                                RefCoordinate(axis, RefCount(axis) - 1))),
                      Int2F(count - 1))
    IN  /\ DOMAIN P = 0 .. 1
        /\ DOMAIN P[0] = 0 .. countY - 1 /\ DOMAIN P[1] = 0 .. countY - 1
        /\ \A i \in 0 .. countY - 1 :
            /\ DOMAIN P[0][i] = 0 .. countX - 1
            /\ DOMAIN P[1][i] = 0 .. countX - 1
            /\ \A j \in 0 .. countX - 1 :
                /\ P[0][i][j] = At(0, j, countX)
                /\ P[1][i][j] = At(1, i, countY)
ResolutionAsAsked ==
    new_distribution._resolution =
        IF new_resolution = None THEN RefOfCall._resolution ELSE new_resolution

\* C11 as claimed: scale_grid returns a Distribution at new_resolution (the
\* reference's when omitted) whose position is the meshgrid of two axes from
\* the reference's first to last coordinate with exactly
\* scale x (referenceCount - 1) + 1 points each; the reference defaults to
\* the source.
C11_CountIsScaled ==
    op = "scale_grid" =>
        /\ ResolutionAsAsked
        /\ Int2F(NewCount(0)) = ClaimedCount(0)
        /\ Int2F(NewCount(1)) = ClaimedCount(1)
        /\ IsMeshOver(NewCount(0), NewCount(1))
\* C11 amended: the axes have the whole part of
\* scale x (referenceCount - 1) + 1 points each (that number itself when it
\* is whole), evenly spaced from the reference's first to its last
\* coordinate, and only the first coordinate when that count is 1; an
\* 11-point axis at resolution 1 becomes 21 points over -5..5 at resolution 2.
C11_CountIsWholePartOfScaled ==
    op = "scale_grid" =>
        /\ ResolutionAsAsked
        /\ NewCount(0) = WholePart(ClaimedCount(0))
        /\ NewCount(1) = WholePart(ClaimedCount(1))
        /\ IsMeshOver(WholePart(ClaimedCount(0)), WholePart(ClaimedCount(1)))
        /\ (reference = None /\ Rows(dist._data) = 11
                /\ new_resolution = Int2F(2)) =>
              /\ NewCount(0) = 21 /\ NewCount(1) = 21
              /\ new_distribution._position[0][0][0] = Int2F(-5)
              /\ new_distribution._position[0][0][1] = Rat(-9, 2)
              /\ new_distribution._position[0][0][20] = Int2F(5)
              /\ new_distribution._position[1][20][0] = Int2F(5)
\* the call of the test, and a call whose scaled count is not whole
C11_Witness ==
    /\ op = "scale_grid"
    /\ reference = None /\ Rows(dist._data) = 11 /\ new_resolution = Int2F(2)
    /\ NewCount(0) = 21
    /\ new_distribution._resolution = Int2F(2)

\* the first and the last coordinate of the returned grid along an axis
NewFirst(axis) ==
    IF axis = 0 THEN new_distribution._position[0][0][0]
    ELSE new_distribution._position[1][0][0]
NewLast(axis) ==
    IF axis = 0 THEN new_distribution._position[0][0][NewCount(0) - 1]
    ELSE new_distribution._position[1][NewCount(1) - 1][0]
SourceCount(axis) == IF axis = 0 THEN Cols(dist._data) ELSE Rows(dist._data)
EndsMatch(axis) ==
    /\ NewFirst(axis) = RefCoordinate(axis, 0)
    /\ NewLast(axis) = RefCoordinate(axis, RefCount(axis) - 1)

RatioGrids ==
    {[rows |-> 3, cols |-> 3, r_res |-> One, e_res |-> Rat(3, 2),
      e_rows |-> 3, e_cols |-> 3],
     [rows |-> 3, cols |-> 3, r_res |-> Int2F(2), e_res |-> Int2F(3),
      e_rows |-> 4, e_cols |-> 4],
     [rows |-> 3, cols |-> 3, r_res |-> One, e_res |-> Rat(1, 2),
      e_rows |-> 2, e_cols |-> 2]}
RatioInit ==
    /\ \E g \in RatioGrids :
        /\ \E a \in RefFields(g.rows, g.cols) :
               r_dist = [data |-> a, resolution |-> g.r_res]
        /\ \E a \in EvalFields(g.e_rows, g.e_cols) :
               e_dist = [data |-> a, resolution |-> g.e_res]
    /\ delta_dose \in DoseCriteria
    /\ delta_distance \in DistanceCriteria
    /\ threshold \in Thresholds
    /\ local \in BOOLEAN
    /\ gamma_map = NoMap /\ pass_rate = NoRate /\ evaluated = {}
    /\ pc = "call" /\ prev = <<>>
InitRatio == RatioInit /\ DistIdle /\ KernelIdle /\ MoreIdle
SpecRatio == InitRatio /\ [][Gamma]_vars

\* e_dist.resolution / r_dist.resolution is a positive whole number
WholeRatio ==
    \E s \in 1 .. e_dist.resolution.n :
        s * r_dist.resolution.n * e_dist.resolution.d
            = e_dist.resolution.n * r_dist.resolution.d

\* C13: when e_dist.resolution / r_dist.resolution is not a positive whole
\* number, gamma() does not carry on with a coerced ratio: it evaluates no
\* cell and returns neither a gamma map nor a pass rate.
C13_NoWholeRatioAborts ==
    (pc # "call" /\ ~WholeRatio) =>
        ~(pc = "done" /\ evaluated # {})
            /\ (evaluated = {} \/ (gamma_map = NoMap /\ pass_rate = NoRate))

\* C14: when the dose-difference denominator of an evaluated cell is zero,
\* every cell of the returned gamma map is still a finite number or the skip
\* sentinel (never NaN, never minus infinity), and every cell counted for
\* the pass rate is finite.
C14_DegenerateDenominatorsHandled ==
    (pc = "done" /\ \E c \in NotSkipped : ~DenomNotZero(c)) =>
        /\ \A c \in Cells(gamma_map) :
               gamma_map[c[1]][c[2]] = InfGamma
                   \/ IsFin(gamma_map[c[1]][c[2]].sq)
        /\ \A c \in Counted : IsFin(gamma_map[c[1]][c[2]].sq)

(***************************************************************************)
(* Distributions built with, and given, positions of any shape.            *)
(***************************************************************************)
Shapes == {<<2, 3>>, <<3, 2>>, <<3, 3>>}
GivenPositions ==
    {Mesh(sh[1], sh[2], x0, 0) : sh \in Shapes, x0 \in {-1, 0}}
ShapeInit ==
    /\ \E sh \in Shapes, p \in GivenPositions \cup {NoPosition} :
        /\ dist = Distribution(Zeros(sh[1], sh[2]), One, p)
        /\ position_arg = p
    /\ pos = NoPosition
    /\ op = "init"
\* lines 111-113: dist.position = pos
SetPosition ==
    /\ \E p \in GivenPositions : dist' = [dist EXCEPT !._position = p]
    /\ op' = "set_position"
    /\ UNCHANGED <<position_arg, pos, gamma_vars, kernel_vars, more_vars>>
InitShape == GammaIdle /\ ShapeInit /\ KernelIdle /\ MoreIdle
SpecShape == InitShape /\ [][SetPosition]_vars

\* C15: every Distribution has data.shape == position.shape[1:]; a position
\* of another shape is refused and never becomes the position of a
\* Distribution.
C15_PositionHasShapeOfData ==
    /\ DOMAIN dist._position = 0 .. 1
    /\ \A axis \in 0 .. 1 :
        /\ Rows(dist._position[axis]) = Rows(dist._data)
        /\ Cols(dist._position[axis]) = Cols(dist._data)

(***************************************************************************)
(* algorithms.gamma_pass_rate().  The source of gamma_evaluation_c is not  *)
(* part of the sources: it is modelled as the per-point algorithm of       *)
(* gamma() run with the kernel it is handed, returning the pass rate.      *)
(***************************************************************************)
\* isinstance(x, np.ndarray): a 1-D array is [array |-> its elements], a
\* scalar is the number itself
IsArray(x) == "array" \in DOMAIN x
\* lines 198-212: np.array([x]) of a scalar
AsArray(x) == IF IsArray(x) THEN x ELSE [array |-> <<x>>]
\* len(x) of an array
ALen(x) == Len(x.array)
\* line 216: np.zeros((len(delta_dose), len(delta_distance)))
Zeros2(rows, cols) == [a \in 0 .. rows - 1 |-> [b \in 0 .. cols - 1 |-> Zero]]
\* line 221: delta_distance[xi], the criterion of the kernel
FirstDistance(distances, x) == distances.array[1]
KernelDta(distances, x) == distances.array[x + 1]
\* line 232: delta_dose[yi]
FirstDose(doses, y) == doses.array[1]
DoseOf(doses, y) == doses.array[y + 1]
\* line 226: pass_rates[yi, xi] = ...
WithEntry(table, y, x, v) == [table EXCEPT ![y][x] = v]

\* gamma_evaluation_c: the square of the gamma index at (i, j)
IndexWithKernel(r, e, krn, ddose, loc, i, j) ==
    LET D_r == r.data[i][j]
        half == (Rows(krn) - 1) \div 2
        c == <<i * ResScale(r, e), j * ResScale(r, e)>>
        denom == Denom(D_r, ArrayMax(e.data), ddose, loc)
    IN  MinF({AddF(DivF(SquareF(Int2F(e.data[c[1] + a][c[2] + b] - D_r)),
                        SquareF(denom)),
                   krn[half + a][half + b]) :
                a \in -half .. half, b \in -half .. half})
\* gamma_evaluation_c: the pass rate
GammaEvaluationC(r, e, krn, ddose, ddist, thresh, loc) ==
    LET cells == EvaluatedCells(r, e, ddist, thresh)
        centre(c) == e.data[c[1] * ResScale(r, e)][c[2] * ResScale(r, e)]
        magnitude(c) ==
            SqrtF(IndexWithKernel(r, e, krn, ddose, loc, c[1], c[2]))
        value == [c \in cells |->
                    IF IsCold(r.data[c[1]][c[2]], centre(c))
                    THEN Negated(magnitude(c)) ELSE magnitude(c)]
        num_passing == Cardinality({c \in cells : AbsLeqOne(value[c])})
        total_points == Cardinality({c \in cells : ~IsInfGamma(value[c])})
    IN  MulF(DivF(Int2F(num_passing), Int2F(total_points)), Int2F(100))

\* the calls of gamma_pass_rate the model makes
DoseArguments ==
    {Int2F(50), [array |-> <<Int2F(50), Int2F(200)>>],
     [array |-> <<Int2F(200), Int2F(50)>>]}
DistanceArguments ==
    {One, [array |-> <<Rat(1, 2), One>>],
     [array |-> <<One, Rat(1, 2), Int2F(2)>>],
     [array |-> <<One, One>>]}
RatesInit ==
    /\ \E g \in Grids :
        /\ \E a \in RefFields(g.rows, g.cols) :
               r_dist = [data |-> a, resolution |-> g.r_res]
        /\ \E a \in IF g.e_res = g.r_res THEN RefFields(g.rows, g.cols)
                     ELSE UniformFields(Refined(g, g.rows), Refined(g, g.cols)) :
               e_dist = [data |-> a, resolution |-> g.e_res]
    /\ delta_dose \in DoseArguments
    /\ delta_distance \in DistanceArguments
    /\ threshold \in Thresholds
    /\ local \in BOOLEAN
    /\ gamma_map = NoMap /\ pass_rate = NoRate /\ evaluated = {}
    /\ pc = "pass_rate_call" /\ prev = <<>>
    /\ RatesIdle

\* lines 198-216: the criteria become arrays, the table is allocated
EnterPassRate ==
    /\ pc = "pass_rate_call"
    /\ delta_dose' = AsArray(delta_dose)
    /\ delta_distance' = AsArray(delta_distance)
    /\ pass_rates' = Zeros2(ALen(AsArray(delta_dose)),
                            ALen(AsArray(delta_distance)))
    /\ xi' = 0 /\ yi' = 0
    /\ pc' = "outer"
    /\ UNCHANGED <<r_dist, e_dist, threshold, local, gamma_map, pass_rate,
                   evaluated, prev, builds, evals>>
    /\ UNCHANGED <<dist_vars, kernel_vars, scale_vars, loop_vars>>
\* lines 218-221: the next distance criterion and its kernel, or line 235
NextDistance ==
    /\ pc = "outer"
    /\ IF xi < ALen(delta_distance)
       THEN /\ dta' = KernelDta(delta_distance, xi)
            /\ resolution' = e_dist.resolution
            /\ kernel' = CreateDistanceKernel(KernelDta(delta_distance, xi),
                                              e_dist.resolution)
            /\ builds' = Append(builds, xi)
            /\ yi' = 0
            /\ pc' = "inner"
       ELSE /\ pc' = "returned"
            /\ UNCHANGED <<kernel_vars, builds, yi>>
    /\ UNCHANGED <<r_dist, e_dist, delta_dose, delta_distance, threshold,
                   local, gamma_map, pass_rate, evaluated, prev>>
    /\ UNCHANGED <<xi, pass_rates, evals, dist_vars, scale_vars, loop_vars>>
\* lines 223-234: the next dose criterion and its pass rate, or the end of
\* the inner loop
NextDose ==
    /\ pc = "inner"
    /\ IF yi < ALen(delta_dose)
       THEN /\ pass_rates' =
                WithEntry(pass_rates, yi, xi,
                          GammaEvaluationC(r_dist, e_dist, kernel,
                                           DoseOf(delta_dose, yi),
                                           delta_distance.array[xi + 1],
                                           threshold, local))
            /\ evals' = Append(evals, [yi |-> yi, xi |-> xi, dta |-> dta,
                                       resolution |-> resolution])
            /\ yi' = yi + 1
            /\ UNCHANGED <<xi, pc>>
       ELSE /\ xi' = xi + 1
            /\ pc' = "outer"
            /\ UNCHANGED <<pass_rates, evals, yi>>
    /\ UNCHANGED <<r_dist, e_dist, delta_dose, delta_distance, threshold,
                   local, gamma_map, pass_rate, evaluated, prev>>
    /\ UNCHANGED <<builds, dist_vars, kernel_vars, scale_vars, loop_vars>>

RatesNext == EnterPassRate \/ NextDistance \/ NextDose
InitRates == RatesInit /\ DistIdle /\ KernelIdle /\ ScaleIdle /\ LoopIdle
SpecRates == InitRates /\ [][RatesNext]_vars

\* the sweep has its criteria as arrays
InSweep == pc \in {"outer", "inner", "returned"}
\* how many times x occurs in the sequence q
Occurrences(q, x) == Cardinality({k \in 1 .. Len(q) : q[k] = x})

EvaluationsReadTheirKernel ==
    \A k \in 1 .. Len(evals) :
        /\ Occurrences(builds, evals[k].xi) >= 1
        /\ evals[k].dta = delta_distance.array[evals[k].xi + 1]
        /\ evals[k].resolution = e_dist.resolution
\* at the return every pair of criteria has been evaluated once
EveryPairEvaluatedOnce ==
    pc = "returned" =>
        \A x \in 0 .. ALen(delta_distance) - 1 :
            \A y \in 0 .. ALen(delta_dose) - 1 :
                Cardinality({k \in 1 .. Len(evals) :
                                evals[k].xi = x /\ evals[k].yi = y}) = 1

Constructed ==
    /\ pc = "idle" /\ op # "idle" /\ pos = NoPosition
    /\ reference = None /\ new_resolution = None

InitFrame == InitDist \/ InitScale \/ Init \/ InitRates
TransformOrRead == Constructed /\ DistNext
FrameNext == TransformOrRead \/ ScaleGrid \/ Gamma \/ RatesNext
SpecFrame == InitFrame /\ [][FrameNext]_vars

\* the fields of a Distribution that no operation but the constructor and
\* the position setter writes
Base(d) == <<d._data, d._position, d._resolution>>

\* C17: scale_grid, gamma, gamma_pass_rate and every read of position leave
\* the data, base position, resolution, translation and rotation of every
\* input Distribution unchanged, and assigning translation or rotation
\* changes neither the base position nor the data of that Distribution.
C17_InputsNotMutated ==
    [][/\ r_dist' = r_dist /\ e_dist' = e_dist
       /\ reference' = reference
       /\ dist # None =>
            /\ Base(dist') = Base(dist)
            /\ op' # "translation" => dist'._translation = dist._translation
            /\ op' # "rotation" => dist'._rotation = dist._rotation]_vars
\* a read of position on a Distribution that was rotated and translated
\* returned other coordinates than the base position, which is still the
\* one the constructor made
C17_Witness ==
    /\ op = "position"
    /\ dist._rotation # 0 /\ dist._translation # <<0, 0>>
    /\ pos # dist._position
    /\ dist._position = DefaultPosition(dist._data, dist._resolution)

\* ---------------------------------------------------------------------
\* gamma() on an evaluated distribution resampled onto the reference grid
\* ---------------------------------------------------------------------
MaxScale == 3
\* the reference shape and resolution, and the whole factor of the
\* evaluated resolution; the last one is a 23 x 23 reference at 5 points
\* per mm against 25 points per mm
FitGrids ==
    {[rows |-> m[1], cols |-> m[2], r_res |-> q, e_res |-> MulF(Int2F(f), q)] :
        m \in {<<3, 4>>, <<5, 5>>}, q \in {One, Rat(1, 2)}, f \in 1 .. MaxScale}
FineGrid == [rows |-> 23, cols |-> 23, r_res |-> Int2F(5), e_res |-> Int2F(25)]
FitDistances == {Rat(1, 2), One, Rat(3, 10)}
FitInit ==
    /\ \E g \in FitGrids \cup {FineGrid} :
        /\ \E a \in UniformFields(g.rows, g.cols) :
               r_dist = [data |-> a, resolution |-> g.r_res]
        /\ \E a \in UniformFields(Refined(g, g.rows), Refined(g, g.cols)) :
               e_dist = [data |-> a, resolution |-> g.e_res]
        /\ delta_distance \in IF g = FineGrid THEN {Rat(11, 5)} ELSE FitDistances
    /\ delta_dose = Int2F(50)
    /\ threshold = Zero
    /\ local \in BOOLEAN
    /\ gamma_map = NoMap /\ pass_rate = NoRate /\ evaluated = {}
    /\ pc = "call" /\ prev = <<>>
InitFit == FitInit /\ DistIdle /\ KernelIdle /\ MoreIdle
SpecFit == InitFit /\ [][Gamma]_vars

\* the evaluated distribution has resolution f x the reference resolution
\* for a whole f >= 1 and shape (f x (M-1) + 1, f x (N-1) + 1)
ScaledOntoReference ==
    \E f \in 1 .. 5 :
        /\ e_dist.resolution = MulF(Int2F(f), r_dist.resolution)
        /\ Rows(e_dist.data) = f * (Rows(r_dist.data) - 1) + 1
        /\ Cols(e_dist.data) = f * (Cols(r_dist.data) - 1) + 1
\* the window of reference cell c lies inside the evaluated data
WindowInside(c) ==
    LET half == EvalGrids(e_dist, delta_distance)
        c_r == c[1] * ResScale(r_dist, e_dist)
        c_c == c[2] * ResScale(r_dist, e_dist)
    IN  /\ 0 <= c_r - half /\ c_r + half <= Rows(e_dist.data) - 1
        /\ 0 <= c_c - half /\ c_c + half <= Cols(e_dist.data) - 1

\* C20: when the evaluated distribution is what scale_grid onto the
\* reference grid produces for a whole resolution factor, every window
\* gamma() extracts for a non-skipped cell lies inside the evaluated data
\* and has the kernel's shape, for every delta_distance > 0, so the shape
\* assertion never fails.
C20_WindowsFit ==
    (pc # "call" /\ ScaledOntoReference) =>
        /\ pc # "assert_failed"
        /\ \A c \in EvaluatedCells(r_dist, e_dist, delta_distance, threshold) :
            /\ WindowInside(c)
            /\ SliceFits(r_dist, e_dist, delta_distance, c[1], c[2])

\* ---------------------------------------------------------------------
\* The loops of gamma() (lines 104-153) step by step, the rows handed to
\* workers that run in any order; the sequential loop is the order in which
\* each worker finishes before the next starts
\* ---------------------------------------------------------------------
LoopGrid == [rows |-> 4, cols |-> 4, r_res |-> One, e_res |-> One]
\* a reference with one cell changed against a uniform evaluated array, or
\* the other way round
LoopFields ==
    (RefFields(LoopGrid.rows, LoopGrid.cols)
        \X UniformFields(LoopGrid.rows, LoopGrid.cols))
    \cup (UniformFields(LoopGrid.rows, LoopGrid.cols)
            \X RefFields(LoopGrid.rows, LoopGrid.cols))
LoopInit ==
    /\ \E f \in LoopFields :
        /\ r_dist = [data |-> f[1], resolution |-> LoopGrid.r_res]
        /\ e_dist = [data |-> f[2], resolution |-> LoopGrid.e_res]
    /\ delta_dose = Int2F(50)
    /\ delta_distance = One
    /\ threshold \in Thresholds
    /\ local \in BOOLEAN
    /\ gamma_map = NoMap /\ pass_rate = NoRate /\ evaluated = {}
    /\ pc = "loop_call" /\ prev = <<>>
    /\ LoopIdle

\* lines 104-105: the rows and the columns the loops visit
LoopRows ==
    RefGrids(r_dist, delta_distance)
        .. Rows(r_dist.data) - RefGrids(r_dist, delta_distance) - 1
LoopCols ==
    RefGrids(r_dist, delta_distance)
        .. Cols(r_dist.data) - RefGrids(r_dist, delta_distance) - 1
\* line 105: the worker of a row after it is done with column j
Advanced(j) ==
    IF j + 1 \in LoopCols THEN [j |-> j + 1, at |-> "cell"]
    ELSE [j |-> j, at |-> "end"]
\* line 150: the value gamma_map[i, j] * -1 reads
ReadAbove(gmap, i, j) == IF i - 1 \in DOMAIN gmap THEN gmap[i - 1][j] ELSE gmap[i][j]
SignRead(gmap, i, j) == gmap[i][j]

\* lines 83-84: the map is allocated and set to np.inf
StartLoop ==
    /\ pc = "loop_call"
    /\ gamma_map' = [i \in 0 .. Rows(r_dist.data) - 1 |->
                        [j \in 0 .. Cols(r_dist.data) - 1 |-> InfGamma]]
    /\ worker' = [i \in LoopRows |->
                    IF LoopCols = {} THEN [j |-> 0, at |-> "end"]
                    ELSE [j |-> RefGrids(r_dist, delta_distance), at |-> "cell"]]
    /\ writes' = <<>>
    /\ pc' = "loop"
    /\ UNCHANGED <<r_dist, e_dist, delta_dose, delta_distance, threshold,
                   local, pass_rate, evaluated, prev>>
    /\ UNCHANGED <<dist_vars, kernel_vars, scale_vars, rates_vars>>
\* lines 108-113: a cell under the threshold is set to np.inf and skipped
SkipCell ==
    /\ pc = "loop"
    /\ \E i \in DOMAIN worker :
        LET j == worker[i].j
        IN  /\ worker[i].at = "cell"
            /\ UnderThreshold(r_dist.data[i][j], ArrayMax(e_dist.data), threshold)
            /\ gamma_map' = [gamma_map EXCEPT ![i][j] = InfGamma]
            /\ writes' = Append(writes, <<i, j>>)
            /\ worker' = [worker EXCEPT ![i] = Advanced(j)]
    /\ UNCHANGED <<r_dist, e_dist, delta_dose, delta_distance, threshold,
                   local, pass_rate, evaluated, pc, prev>>
    /\ UNCHANGED <<dist_vars, kernel_vars, scale_vars, rates_vars>>
\* lines 115-146: the gamma index of a cell is computed and stored
StoreIndex ==
    /\ pc = "loop"
    /\ \E i \in DOMAIN worker :
        LET j == worker[i].j
        IN  /\ worker[i].at = "cell"
            /\ ~UnderThreshold(r_dist.data[i][j], ArrayMax(e_dist.data), threshold)
            /\ IF SliceFits(r_dist, e_dist, delta_distance, i, j)
               THEN /\ gamma_map' = [gamma_map EXCEPT ![i][j] =
                        SqrtF(GammaIndex(r_dist, e_dist, delta_dose,
                                         delta_distance, local, i, j))]
                    /\ writes' = Append(writes, <<i, j>>)
                    /\ evaluated' = evaluated \cup {<<i, j>>}
                    /\ worker' = [worker EXCEPT ![i].at = "sign"]
                    /\ pc' = pc
               ELSE /\ pc' = "assert_failed"
                    /\ UNCHANGED <<gamma_map, writes, evaluated, worker>>
    /\ UNCHANGED <<r_dist, e_dist, delta_dose, delta_distance, threshold,
                   local, pass_rate, prev>>
    /\ UNCHANGED <<dist_vars, kernel_vars, scale_vars, rates_vars>>
\* lines 148-150: the stored value of a cold cell is negated
Negate ==
    /\ pc = "loop"
    /\ \E i \in DOMAIN worker :
        LET j == worker[i].j
        IN  /\ worker[i].at = "sign"
            /\ IF IsCold(r_dist.data[i][j],
                         e_dist.data[i * ResScale(r_dist, e_dist)]
                                    [j * ResScale(r_dist, e_dist)])
               THEN /\ gamma_map' = [gamma_map EXCEPT ![i][j] =
                                        Negated(SignRead(gamma_map, i, j))]
                    /\ writes' = Append(writes, <<i, j>>)
               ELSE UNCHANGED <<gamma_map, writes>>
            /\ worker' = [worker EXCEPT ![i] = Advanced(j)]
    /\ UNCHANGED <<r_dist, e_dist, delta_dose, delta_distance, threshold,
                   local, pass_rate, evaluated, pc, prev>>
    /\ UNCHANGED <<dist_vars, kernel_vars, scale_vars, rates_vars>>
\* lines 151-153: every row is done, the pass rate is computed
Finish ==
    /\ pc = "loop"
    /\ \A i \in DOMAIN worker : worker[i].at = "end"
    /\ pass_rate' = PassRate(gamma_map)
    /\ pc' = "done"
    /\ UNCHANGED <<r_dist, e_dist, delta_dose, delta_distance, threshold,
                   local, gamma_map, evaluated, prev>>
    /\ UNCHANGED <<dist_vars, kernel_vars, scale_vars, rates_vars, loop_vars>>

LoopNext == StartLoop \/ SkipCell \/ StoreIndex \/ Negate \/ Finish
InitLoop == LoopInit /\ DistIdle /\ KernelIdle /\ ScaleIdle /\ RatesIdle
SpecLoop == InitLoop /\ [][LoopNext]_vars

\* how often cell c was written since the initialisation of the map
TimesWritten(c) == Cardinality({k \in 1 .. Len(writes) : writes[k] = c})
\* the map and the pass rate of the sequential loop
SequentialMap ==
    GammaMapOf(r_dist, e_dist, delta_dose, delta_distance, threshold, local)
SameAsSequential ==
    pc = "done" =>
        gamma_map = SequentialMap /\ pass_rate = PassRate(SequentialMap)
\* a cell the loop evaluates whose evaluated value is the higher one
ColdCell(c) ==
    /\ c \in EvaluatedCells(r_dist, e_dist, delta_distance, threshold)
    /\ IsCold(r_dist.data[c[1]][c[2]],
              e_dist.data[c[1] * ResScale(r_dist, e_dist)]
                         [c[2] * ResScale(r_dist, e_dist)])
InLoop == pc \in {"loop", "done"} /\ worker # <<>>

\* C18 as claimed: each cell of the gamma map is written at most once after
\* initialisation, and every interleaving of per-row workers ends with the
\* same gamma map and pass rate as the sequential loop.
C18_WrittenOnceAnyOrder ==
    InLoop =>
        /\ \A c \in Cells(r_dist.data) : TimesWritten(c) <= 1
        /\ SameAsSequential
\* C18 amended: each cell of the gamma map is written only while its own
\* row is at it, at most twice: once, and a second time exactly when the
\* cell is evaluated and cold (its stored magnitude is read and negated);
\* every interleaving of per-row workers ends with the same gamma map and
\* pass rate as the sequential loop.
C18_WrittenByOwnCellAnyOrder ==
    InLoop =>
        /\ \A c \in Cells(r_dist.data) :
            /\ TimesWritten(c) <= (IF ColdCell(c) THEN 2 ELSE 1)
            /\ pc = "done" =>
                 TimesWritten(c) = (IF c \notin LoopCells(r_dist, delta_distance)
                                    THEN 0
                                    ELSE IF ColdCell(c) THEN 2 ELSE 1)
        /\ SameAsSequential
\* a finished call whose rows were not processed in the sequential order
\* (the second row wrote first and the first row wrote last) and that wrote
\* a cold cell twice
C18_Witness ==
    /\ pc = "done" /\ Cardinality(DOMAIN worker) >= 2
    /\ Len(writes) >= 4
    /\ writes[1][1] > writes[Len(writes)][1]
    /\ \E c \in Cells(r_dist.data) : TimesWritten(c) = 2
    /\ \E c \in Cells(r_dist.data) :
          gamma_map[c[1]][c[2]].neg /\ IsFin(gamma_map[c[1]][c[2]].sq)

\* C21: whenever gamma() returns, the pass rate is a defined number between
\* 0 and 100 inclusive: the count of non-skipped cells it divides by is never
\* zero, also when every cell is skipped by the border band or by the
\* threshold, and the count of passing cells never exceeds the count of
\* non-skipped cells.
C21_PassRateDefined ==
    pc = "done" =>
        /\ TotalPoints(gamma_map) # 0
        /\ NumPassing(gamma_map) <= TotalPoints(gamma_map)
        /\ IsFin(pass_rate)
        /\ LeqF(Zero, pass_rate) /\ LeqF(pass_rate, Int2F(100))

====
